---- MODULE Spec2Model ----
(***************************************************************************)
(* The beach webhook receiver: four revisions of one Netlify handler that  *)
(* reconcile scraped records into the tables beaches and beach_conditions. *)
(*                                                                         *)
(*   "place"  src/netlify/functions/webhook.js 13-142  (identity place_id) *)
(*   "namemun" src/netlify/functions/webhook.js 151-318 (name+municipality)*)
(*   "update" src/netlify/functions/webhook.js 327-436 (update only)       *)
(*   "url"    src/unnamed/part_000 6-196 (identity source_url, pruning)    *)
(*                                                                         *)
(* Every awaited database call is one step of an invocation, so that two   *)
(* invocations can interleave between a lookup and the insert after it.    *)
(* A database call either takes effect and returns no error, or returns an *)
(* error and changes nothing.                                              *)
(*                                                                         *)
(* Strings are sequences of one-character strings.  The JavaScript values  *)
(* undefined and null are the sequences Undefined and Null, which hold a   *)
(* token that is no character.  Columns nothing reads (latitude,           *)
(* longitude, description, source, updated_at) are left out of the rows.   *)
(*                                                                         *)
(* webhook.js holds three revisions one after the other and declares       *)
(* municipality twice in the loop of the second (lines 200 and 211); each  *)
(* revision is read as a module of its own and the second declaration as   *)
(* the value it repeats.  A dataset response with a non-success status is  *)
(* read as a JSON error object by the revisions that do not test           *)
(* response.ok.                                                            *)
(***************************************************************************)
EXTENDS Integers, Sequences, FiniteSets, TLC

\* ------------------------------------------------------------ bounds
MaxRecords == 2
MaxDeliveries == 2
MaxFaults == 2
MaxNow == 2
\* the longest list of a delivery when two invocations run at once
MaxConcurrentRecords == 1

\* 24 * 60 * 60 * 1000 ms, in units of 24 hours
Retention == 1

Procs == {1, 2}
Variants == {"place", "namemun", "update", "url"}

\* ------------------------------------------------------------ values
Undefined == <<"undefined">>
Null == <<"null">>
Unknown == <<"U", "n", "k", "n", "o", "w", "n">>
MuniM == <<"M">>
NameA == <<"A">>
Namea == <<"a">>
Url1 == <<"u">>
Url2 == <<"w">>
\* no scraped_at in the record
NoTime == -1

\* measurement values: a flag, a jellyfish sighting, an occupancy in percent
Green == <<"green">>
Yellow == <<"yellow">>
True == <<"true">>
False == <<"false">>
Forty == <<"40">>
Zero == <<"0">>

\* a record that supplies none of the measurement fields
Rec(n, m, u, t) ==
    [name |-> n, municipality |-> m, source_url |-> u, scraped_at |-> t,
     flag_status |-> Undefined, has_jellyfish |-> Undefined, occupancy_percent |-> Undefined]

\* the record with the measurement fields supplied
Measured(r) ==
    [r EXCEPT !.flag_status = Yellow, !.has_jellyfish = True, !.occupancy_percent = Forty]

\* a JSON null in the place of a record object
NullRecord == Rec(Null, Null, Null, NoTime)

\* the records a dataset may hold, per revision (the fields the revision reads)
RecordsOf(v) ==
    CASE v = "place" ->
           { Rec(NameA, Undefined, Undefined, NoTime), Measured(Rec(Namea, MuniM, Undefined, 0)),
             Rec(<<>>, Undefined, Undefined, NoTime), Rec(Undefined, MuniM, Undefined, NoTime) }
      [] v = "namemun" ->
           { Rec(NameA, Undefined, Undefined, NoTime), Measured(Rec(NameA, MuniM, Undefined, 0)),
             Rec(Namea, MuniM, Undefined, NoTime), Rec(Undefined, MuniM, Undefined, NoTime) }
      [] v = "update" ->
           { Rec(NameA, Undefined, Undefined, NoTime), Measured(Rec(Namea, Undefined, Undefined, 0)),
             Rec(<<>>, Undefined, Undefined, NoTime), Rec(Undefined, Undefined, Undefined, NoTime) }
      [] v = "url" ->
           { Rec(NameA, MuniM, Url1, NoTime), Measured(Rec(Namea, Null, Url1, 0)),
             Rec(NameA, <<>>, Url2, NoTime), Rec(Undefined, MuniM, Url1, NoTime),
             Rec(NameA, Undefined, Undefined, 0) }

\* !v of JavaScript, for the string-or-missing values of this model
Truthy(v) == v /= Undefined /\ v /= Null /\ v /= <<>>

\* a || b
OrElse(a, b) == IF Truthy(a) THEN a ELSE b

\* ------------------------------------------------------------ place_id
ToLower(c) ==
    CASE c = "A" -> "a"
      [] c = "M" -> "m"
      [] c = "U" -> "u"
      [] c = "U_ACUTE" -> "u_acute"
      [] OTHER -> c

\* String.prototype.normalize('NFD') on one character
Decompose(c) ==
    CASE c = "u_acute" -> <<"u", "COMBINING_ACUTE">>
      [] c = "U_ACUTE" -> <<"U", "COMBINING_ACUTE">>
      [] OTHER -> <<c>>

IsSpace(c) == c \in {" ", "TAB"}
IsCombining(c) == c = "COMBINING_ACUTE"
IsSlugChar(c) == c \in {"a", "b", "k", "m", "n", "o", "u", "w", "0", "1", "_"}

RECURSIVE MapLower(_)
MapLower(s) == IF s = <<>> THEN <<>> ELSE <<ToLower(Head(s))>> \o MapLower(Tail(s))

RECURSIVE NormalizeNFD(_)
NormalizeNFD(s) == IF s = <<>> THEN <<>> ELSE Decompose(Head(s)) \o NormalizeNFD(Tail(s))

\* .replace(/[\u0300-\u036f]/g, '')
RECURSIVE RemoveAccents(_)
RemoveAccents(s) ==
    IF s = <<>> THEN <<>>
    ELSE (IF IsCombining(Head(s)) THEN <<>> ELSE <<Head(s)>>) \o RemoveAccents(Tail(s))

\* .replace(/\s+/g, '_'): each maximal run of whitespace becomes one underscore
RECURSIVE SpacesToUnderscore(_)
SpacesToUnderscore(s) ==
    IF s = <<>> THEN <<>>
    ELSE IF IsSpace(Head(s))
         THEN IF Len(s) > 1 /\ IsSpace(s[2])
              THEN SpacesToUnderscore(Tail(s))
              ELSE <<"_">> \o SpacesToUnderscore(Tail(s))
         ELSE <<Head(s)>> \o SpacesToUnderscore(Tail(s))

\* .replace(/[^a-z0-9_]/g, '')
RECURSIVE StripNonSlug(_)
StripNonSlug(s) ==
    IF s = <<>> THEN <<>>
    ELSE (IF IsSlugChar(Head(s)) THEN <<Head(s)>> ELSE <<>>) \o StripNonSlug(Tail(s))

\* .replace(/_+/g, '_')
RECURSIVE CollapseUnderscores(_)
CollapseUnderscores(s) ==
    IF s = <<>> THEN <<>>
    ELSE IF Head(s) = "_" /\ Len(s) > 1 /\ s[2] = "_"
         THEN CollapseUnderscores(Tail(s))
         ELSE <<Head(s)>> \o CollapseUnderscores(Tail(s))

\* .replace(/^_|_$/g, ''): one underscore at the start and one at the end;
\* a string that is a single underscore is matched once, by ^_
TrimUnderscore(s) ==
    LET a == IF s /= <<>> /\ Head(s) = "_" THEN Tail(s) ELSE s
    IN  IF a /= <<>> /\ a[Len(a)] = "_" THEN SubSeq(a, 1, Len(a) - 1) ELSE a

\* the place_id of the place_id revision
PlaceIdOfName(name) == StripNonSlug(SpacesToUnderscore(MapLower(name)))

\* the chain of string operations of the name+municipality revision
Slugify(s) ==
    TrimUnderscore(CollapseUnderscores(StripNonSlug(SpacesToUnderscore(
        RemoveAccents(NormalizeNFD(MapLower(s)))))))

\* the place_id of the name+municipality revision
PlaceIdOfNameMunicipality(name, municipality) == Slugify(name \o <<"_">> \o municipality)

\* ------------------------------------------------------------ state
VARIABLES
    variant,      \* the revision deployed
    now,          \* Date.now() of the current invocation, in units of 24 hours
    beaches,      \* the table beaches: a sequence of rows, the id is the position
    conds,        \* the table beach_conditions: a set of rows
    nextCondId,   \* the serial of beach_conditions.id
    deliveries,   \* webhook deliveries received so far
    faults,       \* database calls that returned an error so far
    inv,          \* per invocation: its position, locals and counters
    slug          \* the place_id derivation applied to a string on its own

vars == <<variant, now, beaches, conds, nextCondId, deliveries, faults, inv, slug>>

\* slug while the handler runs: no derivation on its own is under way
IdleSlug == [input |-> <<>>, once |-> <<>>, twice |-> <<>>, applied |-> 0]

ZeroCounters ==
    [created |-> 0, updated |-> 0, processed |-> 0, errors |-> 0, notFound |-> 0,
     beaches_added |-> 0, conditions_added |-> 0]

Bump(c, f) == [c EXCEPT ![f] = @ + 1]

\* pc: "idle" (no delivery yet), "loop" (head of the for loop), "find", "insert",
\* "update", "cond" (before that awaited call), "next" (end of one iteration),
\* "cleanup" (before the delete), "done" (response returned).
\* b0, c0, cnt0: the tables and counters when the current iteration began;
\* rfault: a database call of this iteration returned an error;
\* dfault: a database call of this delivery returned an error;
\* nb0, nc0: Len(beaches) and nextCondId when the delivery began;
\* replay: this delivery repeats the list of the first delivery, which met an
\* empty beaches table and answered 200; pfault: the dfault of that delivery;
\* kind: the shape of the delivery's body; writes, w0: the insert, update and
\* delete calls issued by this delivery so far, and when the iteration began;
\* entered: the delivery reached the for loop; cleaned: "no" until the cleanup
\* delete returned, then "ok" or "failed"; c1: beach_conditions just before it.
IdleInvocation ==
    [pc |-> "idle", items |-> <<>>, idx |-> 0, cnt |-> ZeroCounters, status |-> 0,
     beachId |-> 0, b0 |-> <<>>, c0 |-> {}, cnt0 |-> ZeroCounters,
     rfault |-> FALSE, dfault |-> FALSE, nb0 |-> 0, nc0 |-> 1, replay |-> FALSE,
     pfault |-> FALSE, kind |-> "none", writes |-> 0, w0 |-> 0,
     entered |-> FALSE, cleaned |-> "no", c1 |-> {}]

\* the rows populated out of band that the update-only revision starts from
RowA == [id |-> 1, place_id |-> Namea, name |-> NameA, municipality |-> MuniM, source_url |-> Null]
RowB == [id |-> 2, place_id |-> <<"b">>, name |-> <<"b">>, municipality |-> Unknown, source_url |-> Null]

Init ==
    /\ variant \in Variants
    /\ now = 0
    /\ beaches \in (IF variant = "update" THEN {<<>>, <<RowA>>, <<RowA, RowB>>} ELSE {<<>>})
    /\ conds = {}
    /\ nextCondId = 1
    /\ deliveries = 0
    /\ faults = 0
    /\ inv = [p \in Procs |-> IdleInvocation]
    /\ slug = IdleSlug

\* lists of at most n records
ListsUpTo(S, n) == UNION { [1..k -> S] : k \in 0..n }

Item(p) == inv[p].items[inv[p].idx]

\* Extract, with every revision taking a single object for a list of one record
ExtractWrapsObject(v, kind, list, obj) ==
    IF kind = "object" THEN [status |-> 0, items |-> <<obj>>]
    ELSE IF kind = "list" THEN [status |-> 0, items |-> list]
    ELSE IF v = "place" THEN [status |-> 0, items |-> <<>>]
    ELSE [status |-> IF v = "url" THEN 500 ELSE 400, items |-> <<>>]

\* ------------------------------------------------------------ payload
\* What the handler makes of the body, before the loop.  kind is the shape of the
\* delivery: "empty" (the body {}), "list" (a list of records, inline or in the
\* dataset the body names), "object" (a single record object in its place),
\* "fetchfail" (the dataset store answers with a non-success status).
\* The result is the status returned at once (0: the loop is entered) and the items.
Extract(v, kind, list, obj) ==
    CASE v = "place" ->
           \* body.eventData?.data || body.data || [] ; Array.isArray
           IF kind = "object" THEN [status |-> 400, items |-> <<>>]
           ELSE IF kind = "list" THEN [status |-> 0, items |-> list]
           ELSE [status |-> 0, items |-> <<>>]
      [] v \in {"namemun", "update"} ->
           IF kind = "empty" THEN [status |-> 400, items |-> <<>>]
           ELSE IF kind = "list" THEN [status |-> 0, items |-> list]
           ELSE [status |-> 400, items |-> <<>>]
      [] v = "url" ->
           IF kind \in {"empty", "fetchfail"} THEN [status |-> 500, items |-> <<>>]
           ELSE IF kind = "list" THEN [status |-> 0, items |-> list]
           ELSE [status |-> 0, items |-> <<obj>>]

Kinds == {"empty", "list", "object", "fetchfail"}

\* A POST arrives: JSON.parse, the dataset fetch, and either an immediate response
\* or the counters set to zero before the loop.
StartWith(p, maxLen) ==
    /\ inv[p].pc \in {"idle", "done"}
    /\ deliveries < MaxDeliveries
    /\ \E t \in now..MaxNow, kind \in Kinds :
       \E list \in (IF kind = "list"
                    THEN ListsUpTo(RecordsOf(variant) \cup {NullRecord}, maxLen)
                    ELSE {<<>>}),
          obj \in (IF kind = "object" THEN RecordsOf(variant) ELSE {NullRecord}) :
          LET x == Extract(variant, kind, list, obj) IN
          /\ kind = "fetchfail" => variant /= "place"
          /\ now' = t
          /\ inv' = [inv EXCEPT ![p] =
                [IdleInvocation EXCEPT
                    !.pc = IF x.status = 0 THEN "loop" ELSE "done",
                    !.status = x.status,
                    !.kind = kind,
                    !.entered = x.status = 0,
                    !.pfault = inv[p].dfault,
                    !.items = x.items,
                    !.idx = 1,
                    !.nb0 = Len(beaches),
                    !.nc0 = nextCondId,
                    !.replay = /\ deliveries = 1
                               /\ inv[p].pc = "done"
                               /\ inv[p].status = 200
                               /\ inv[p].nb0 = 0
                               /\ x.status = 0
                               /\ x.items = inv[p].items]]
    /\ deliveries' = deliveries + 1
    /\ UNCHANGED <<slug, variant, beaches, conds, nextCondId, faults>>

Start(p) == StartWith(p, MaxRecords)

StartConcurrent(p) == StartWith(p, MaxConcurrentRecords)

\* ------------------------------------------------------------ the record loop
\* What the top of one iteration makes of the record, before any database call:
\* "ok", "skip" (continue), "throw" (caught by the iteration's catch), "abort"
\* (the catch block itself throws on a null record, reading its name for the log).
Validate(v, r) ==
    IF r = NullRecord THEN "abort"
    ELSE CASE v = "place" -> IF r.name \in {Undefined, Null} THEN "throw" ELSE "ok"
           [] v = "namemun" -> IF Truthy(r.name) THEN "ok" ELSE "skip"
           [] v = "update" -> "ok"
           [] v = "url" -> IF Truthy(r.name) /\ Truthy(r.source_url) THEN "ok" ELSE "skip"

\* the counters after a record was skipped by the validation
SkipCounters(v, c) == IF v = "url" THEN Bump(c, "errors") ELSE c

\* CatchCounters, with errors++ forgotten
CatchCountersNone(c) == c

\* the counters after the iteration's catch block ran
CatchCounters(c) == Bump(c, "errors")

\* AfterFailure, with the failure leaving the loop
AfterFailureLeavesLoop == "cleanup"

\* where the handler goes when one record's processing has failed: the catch block
\* or the continue ends the iteration
AfterFailure == "next"

BeginRecord(p) ==
    /\ inv[p].pc = "loop"
    /\ inv[p].idx <= Len(inv[p].items)
    /\ LET me == inv[p]
           out == Validate(variant, Item(p))
           snap == [me EXCEPT !.b0 = beaches, !.c0 = conds, !.cnt0 = me.cnt, !.w0 = me.writes,
                             !.rfault = FALSE]
       IN  inv' = [inv EXCEPT ![p] =
               CASE out = "ok" -> [snap EXCEPT !.pc = "find"]
                 [] out = "skip" -> [snap EXCEPT !.pc = "next", !.cnt = SkipCounters(variant, me.cnt)]
                 [] out = "throw" -> [snap EXCEPT !.pc = AfterFailure, !.cnt = CatchCounters(me.cnt)]
                 [] out = "abort" -> [snap EXCEPT !.pc = "done", !.status = 500]]
    /\ UNCHANGED <<slug, variant, now, beaches, conds, nextCondId, deliveries, faults>>

\* s occurs in t
IsSubstring(s, t) ==
    \E i \in 0..(Len(t) - Len(s)) : SubSeq(t, i + 1, i + Len(s)) = s

\* the municipality the name+municipality revision works with
NormalizedMunicipality(r) == OrElse(r.municipality, Unknown)

\* RowMatches, comparing the municipality column with the record's raw field
RowMatchesRawMunicipality(v, row, r) ==
    CASE v = "place" -> row.place_id = PlaceIdOfName(r.name)
      [] v = "namemun" -> row.name = r.name /\ row.municipality = r.municipality
      [] v = "update" -> IsSubstring(MapLower(r.name), MapLower(row.name))
      [] v = "url" -> row.source_url = r.source_url

\* the row matches the record under the revision's lookup predicate
RowMatches(v, row, r) ==
    CASE v = "place" -> row.place_id = PlaceIdOfName(r.name)
      [] v = "namemun" -> row.name = r.name /\ row.municipality = NormalizedMunicipality(r)
      [] v = "update" -> IsSubstring(MapLower(r.name), MapLower(row.name))
      [] v = "url" -> row.source_url = r.source_url

FindRows(v, rows, r) == { i \in 1..Len(rows) : RowMatches(v, rows[i], r) }

\* the identity key of a record and of a row under the revision's lookup
KeyOfRecord(v, r) ==
    CASE v = "place" -> <<PlaceIdOfName(r.name)>>
      [] v = "namemun" -> <<r.name, NormalizedMunicipality(r)>>
      [] OTHER -> <<r.source_url>>

KeyOfRow(v, row) ==
    CASE v = "place" -> <<row.place_id>>
      [] v = "namemun" -> <<row.name, row.municipality>>
      [] OTHER -> <<row.source_url>>

\* .single() and .maybeSingle(): data is the row's id (0 for null); the error is
\* "FAULT" when the call failed, "PGRST116" when the rows are not exactly one
\* (.maybeSingle() reports no error for no row), "NONE" otherwise.
Lookup(v, rows, r, fault) ==
    LET ids == FindRows(v, rows, r) IN
    IF fault THEN [data |-> 0, error |-> "FAULT"]
    ELSE IF Cardinality(ids) = 1 THEN [data |-> CHOOSE i \in ids : TRUE, error |-> "NONE"]
    ELSE IF ids = {} /\ v = "namemun" THEN [data |-> 0, error |-> "NONE"]
    ELSE [data |-> 0, error |-> "PGRST116"]

\* if (findError && findError.code !== 'PGRST116') throw findError
ThrowsFindError(v, error) == v = "url" /\ error \notin {"NONE", "PGRST116"}

\* BranchAfterFind, with the place_id revision inserting whether or not a row was found
BranchAfterFindAlwaysInsert(v, data, r) ==
    CASE v = "place" -> "insert"
      [] v = "namemun" ->
           IF data /= 0
           THEN (IF Truthy(NormalizedMunicipality(r)) /\ NormalizedMunicipality(r) /= Unknown
                 THEN "update" ELSE "cond")
           ELSE "insert"
      [] v = "update" -> IF data /= 0 THEN "cond" ELSE "notFound"
      [] v = "url" -> IF data /= 0 THEN "update" ELSE "insert"

\* the branch taken once the lookup has returned and did not throw
BranchAfterFind(v, data, r) ==
    CASE v = "place" -> IF data /= 0 THEN "cond" ELSE "insert"
      [] v = "namemun" ->
           IF data /= 0
           THEN (IF Truthy(NormalizedMunicipality(r)) /\ NormalizedMunicipality(r) /= Unknown
                 THEN "update" ELSE "cond")
           ELSE "insert"
      [] v = "update" -> IF data /= 0 THEN "cond" ELSE "notFound"
      [] v = "url" -> IF data /= 0 THEN "update" ELSE "insert"

\* NotFoundCounters, with the record counted as an error
NotFoundCountersAsError(c) == Bump(c, "errors")

\* the counters after the update-only revision found no single row for the record
NotFoundCounters(c) == Bump(c, "notFound")

\* a fault may be injected while the budget lasts
FaultChoices == IF faults < MaxFaults THEN {FALSE, TRUE} ELSE {FALSE}

FindBeach(p) ==
    /\ inv[p].pc = "find"
    /\ \E fault \in FaultChoices :
          LET me == inv[p]
              res == Lookup(variant, beaches, Item(p), fault)
              br == BranchAfterFind(variant, res.data, Item(p))
              seen == [me EXCEPT
                          !.rfault = fault \/ Cardinality(FindRows(variant, beaches, Item(p))) > 1,
                          !.dfault = @ \/ fault]
          IN  /\ faults' = faults + (IF fault THEN 1 ELSE 0)
              /\ inv' = [inv EXCEPT ![p] =
                    IF ThrowsFindError(variant, res.error)
                    THEN [seen EXCEPT !.pc = AfterFailure, !.cnt = CatchCounters(me.cnt)]
                    ELSE IF br = "notFound"
                    THEN [seen EXCEPT !.pc = "next", !.cnt = NotFoundCounters(me.cnt)]
                    ELSE [seen EXCEPT !.pc = br, !.beachId = res.data]]
    /\ UNCHANGED <<slug, variant, now, beaches, conds, nextCondId, deliveries>>

\* a column given undefined is left out of the request body by JSON.stringify:
\* an insert stores the column's default, null
ColumnOf(x) == IF x = Undefined THEN Null ELSE x

\* the row the revision inserts into beaches
NewBeachRow(v, id, r) ==
    CASE v = "place" ->
           [id |-> id, place_id |-> PlaceIdOfName(r.name), name |-> r.name,
            municipality |-> OrElse(r.municipality, Unknown), source_url |-> Null]
      [] v = "namemun" ->
           [id |-> id,
            place_id |-> PlaceIdOfNameMunicipality(r.name, NormalizedMunicipality(r)),
            name |-> r.name, municipality |-> NormalizedMunicipality(r), source_url |-> Null]
      [] v = "url" ->
           [id |-> id, place_id |-> Null, name |-> ColumnOf(r.name),
            municipality |-> ColumnOf(r.municipality), source_url |-> ColumnOf(r.source_url)]

\* InsertRow, with the insert dropped when the key is already in the table
InsertRowUnlessPresent(rows, row) ==
    IF \E i \in 1..Len(rows) : KeyOfRow(variant, rows[i]) = KeyOfRow(variant, row)
    THEN rows ELSE Append(rows, row)

\* the table after .insert(row): no uniqueness is checked
InsertRow(rows, row) == Append(rows, row)

\* CreatedCounters, with beaches_added++ forgotten
CreatedCountersNameMunOnly(v, c) ==
    CASE v = "namemun" -> Bump(c, "created")
      [] OTHER -> c

\* the counters after the beach insert returned no error
CreatedCounters(v, c) ==
    CASE v = "namemun" -> Bump(c, "created")
      [] v = "url" -> Bump(c, "beaches_added")
      [] OTHER -> c

InsertBeach(p) ==
    /\ inv[p].pc = "insert"
    /\ \E fault \in FaultChoices :
          LET me == [inv[p] EXCEPT !.writes = @ + 1, !.rfault = @ \/ fault, !.dfault = @ \/ fault]
              id == Len(beaches) + 1
          IN  /\ faults' = faults + (IF fault THEN 1 ELSE 0)
              /\ IF fault
                 THEN /\ beaches' = beaches
                      /\ inv' = [inv EXCEPT ![p] =
                            [me EXCEPT !.pc = AfterFailure, !.cnt = CatchCounters(me.cnt)]]
                 ELSE /\ beaches' = InsertRow(beaches, NewBeachRow(variant, id, Item(p)))
                      /\ inv' = [inv EXCEPT ![p] =
                            [me EXCEPT !.pc = "cond", !.beachId = id,
                                       !.cnt = CreatedCounters(variant, me.cnt)]]
    /\ UNCHANGED <<slug, variant, now, conds, nextCondId, deliveries>>

\* the row after .update(...).eq('id', beachId); a column given undefined is
\* left out of the request and keeps its value
UpdatedRow(v, row, r) ==
    CASE v = "namemun" -> [row EXCEPT !.municipality = NormalizedMunicipality(r)]
      [] v = "url" ->
           [row EXCEPT !.name = IF r.name = Undefined THEN @ ELSE r.name,
                       !.municipality = IF r.municipality = Undefined THEN @ ELSE r.municipality]

\* the url revision throws updateError; the name+municipality revision does not
\* look at the result of the update
ThrowsUpdateError(v) == v = "url"

UpdateBeach(p) ==
    /\ inv[p].pc = "update"
    /\ \E fault \in FaultChoices :
          LET me == [inv[p] EXCEPT !.writes = @ + 1, !.rfault = @ \/ fault, !.dfault = @ \/ fault]
          IN  /\ faults' = faults + (IF fault THEN 1 ELSE 0)
              /\ IF fault
                 THEN /\ beaches' = beaches
                      /\ inv' = [inv EXCEPT ![p] =
                            IF ThrowsUpdateError(variant)
                            THEN [me EXCEPT !.pc = AfterFailure, !.cnt = CatchCounters(me.cnt)]
                            ELSE [me EXCEPT !.pc = "cond"]]
                 ELSE /\ beaches' = [beaches EXCEPT ![me.beachId] = UpdatedRow(variant, @, Item(p))]
                      /\ inv' = [inv EXCEPT ![p] = [me EXCEPT !.pc = "cond"]]
    /\ UNCHANGED <<slug, variant, now, conds, nextCondId, deliveries>>

\* parseInt(x) || 0
ParseIntOrZero(x) == IF x \in {Undefined, Null, <<>>} THEN Zero ELSE x

\* Boolean(x)
ToBoolean(x) == IF x \in {Undefined, Null, <<>>, False, Zero} THEN False ELSE True

\* x || null
OrNull(x) == IF x \in {Undefined, Null, <<>>, False, Zero} THEN Null ELSE x

\* the measurement columns of the row, as the revision fills them
Measurements(v, r) ==
    CASE v = "place" ->
           [occupancy_percent |-> ParseIntOrZero(r.occupancy_percent),
            flag_status |-> OrElse(r.flag_status, Green),
            has_jellyfish |-> ToBoolean(r.has_jellyfish)]
      [] v = "namemun" ->
           [occupancy_percent |-> ColumnOf(r.occupancy_percent),
            flag_status |-> OrElse(r.flag_status, Green),
            has_jellyfish |-> ToBoolean(r.has_jellyfish)]
      [] v = "update" ->
           [occupancy_percent |-> OrNull(r.occupancy_percent),
            flag_status |-> OrElse(r.flag_status, Green),
            has_jellyfish |-> ToBoolean(r.has_jellyfish)]
      [] v = "url" ->
           [occupancy_percent |-> ColumnOf(r.occupancy_percent),
            flag_status |-> ColumnOf(r.flag_status),
            has_jellyfish |-> ColumnOf(r.has_jellyfish)]

\* ConditionRow, with the id of the beach left out
ConditionRowNoBeach(v, id, beachId, r, t) ==
    LET m == Measurements(v, r) IN
    [id |-> id, beach_id |-> 0,
     scraped_at |-> IF r.scraped_at = NoTime THEN t ELSE r.scraped_at,
     occupancy_percent |-> m.occupancy_percent,
     flag_status |-> m.flag_status,
     has_jellyfish |-> m.has_jellyfish]

\* the row inserted into beach_conditions: scraped_at || new Date().toISOString()
ConditionRow(v, id, beachId, r, t) ==
    LET m == Measurements(v, r) IN
    [id |-> id, beach_id |-> beachId,
     scraped_at |-> IF r.scraped_at = NoTime THEN t ELSE r.scraped_at,
     occupancy_percent |-> m.occupancy_percent,
     flag_status |-> m.flag_status,
     has_jellyfish |-> m.has_jellyfish]

\* ConditionCounters, with updated++ forgotten
ConditionCountersNoUpdated(v, c) ==
    CASE v = "place" -> Bump(c, "processed")
      [] v = "url" -> Bump(Bump(c, "conditions_added"), "processed")
      [] OTHER -> c

\* the counters after the condition insert returned no error
ConditionCounters(v, c) ==
    CASE v = "place" -> Bump(c, "processed")
      [] v \in {"namemun", "update"} -> Bump(c, "updated")
      [] v = "url" -> Bump(Bump(c, "conditions_added"), "processed")

InsertCondition(p) ==
    /\ inv[p].pc = "cond"
    /\ \E fault \in FaultChoices :
          LET me == [inv[p] EXCEPT !.writes = @ + 1, !.rfault = @ \/ fault, !.dfault = @ \/ fault]
          IN  /\ faults' = faults + (IF fault THEN 1 ELSE 0)
              /\ IF fault
                 THEN /\ UNCHANGED <<conds, nextCondId>>
                      /\ inv' = [inv EXCEPT ![p] =
                            [me EXCEPT !.pc = AfterFailure, !.cnt = CatchCounters(me.cnt)]]
                 ELSE /\ conds' = conds \cup {ConditionRow(variant, nextCondId, me.beachId, Item(p), now)}
                      /\ nextCondId' = nextCondId + 1
                      /\ inv' = [inv EXCEPT ![p] =
                            [me EXCEPT !.pc = "next", !.cnt = ConditionCounters(variant, me.cnt)]]
    /\ UNCHANGED <<slug, variant, now, beaches, deliveries>>

\* the for loop moves to the next record
Advance(p) ==
    /\ inv[p].pc = "next"
    /\ inv' = [inv EXCEPT ![p] =
          [@ EXCEPT !.pc = "loop", !.idx = @ + 1, !.beachId = 0,
                    !.b0 = <<>>, !.c0 = {}, !.cnt0 = ZeroCounters, !.w0 = 0,
                    !.rfault = FALSE]]
    /\ UNCHANGED <<slug, variant, now, beaches, conds, nextCondId, deliveries, faults>>

\* the revision prunes beach_conditions after the loop
HasCleanup(v) == v = "url"

\* the loop is over: the summary is returned, after the cleanup where there is one
Finish(p) ==
    /\ inv[p].pc = "loop"
    /\ inv[p].idx > Len(inv[p].items)
    /\ inv' = [inv EXCEPT ![p] =
          IF HasCleanup(variant) THEN [@ EXCEPT !.pc = "cleanup"]
          ELSE [@ EXCEPT !.pc = "done", !.status = 200]]
    /\ UNCHANGED <<slug, variant, now, beaches, conds, nextCondId, deliveries, faults>>

\* Pruned, with the rows exactly at the cutoff deleted too
PrunedInclusive(rows, t) == { c \in rows : ~(c.scraped_at <= t - Retention) }

\* .delete().lt('scraped_at', twentyFourHoursAgo)
Pruned(rows, t) == { c \in rows : ~(c.scraped_at < t - Retention) }

Cleanup(p) ==
    /\ inv[p].pc = "cleanup"
    /\ \E fault \in FaultChoices :
          /\ faults' = faults + (IF fault THEN 1 ELSE 0)
          /\ conds' = IF fault THEN conds ELSE Pruned(conds, now)
          /\ inv' = [inv EXCEPT ![p] =
                [@ EXCEPT !.pc = "done", !.status = 200, !.writes = @ + 1,
                          !.dfault = @ \/ fault,
                          !.cleaned = IF fault THEN "failed" ELSE "ok",
                          !.c1 = conds]]
    /\ UNCHANGED <<slug, variant, now, beaches, nextCondId, deliveries>>

\* deliveries processed one at a time
Next ==
    \/ Start(1)
    \/ BeginRecord(1)
    \/ FindBeach(1)
    \/ InsertBeach(1)
    \/ UpdateBeach(1)
    \/ InsertCondition(1)
    \/ Advance(1)
    \/ Finish(1)
    \/ Cleanup(1)

Spec == Init /\ [][Next]_vars

\* two invocations of the handler running at once
NextConcurrent ==
    \E p \in Procs :
        \/ StartConcurrent(p)
        \/ BeginRecord(p)
        \/ FindBeach(p)
        \/ InsertBeach(p)
        \/ UpdateBeach(p)
        \/ InsertCondition(p)
        \/ Advance(p)
        \/ Finish(p)
        \/ Cleanup(p)

SpecConcurrent == Init /\ [][NextConcurrent]_vars

\* ------------------------------------------------------------ the derivation alone
\* the longest input string
MaxSlugLen == 3

\* a lower-case and an upper-case letter, a digit, a blank, an underscore, a
\* punctuation mark, and a lower-case and an upper-case accented letter
SlugAlphabet == {"a", "U", "1", " ", "_", "-", "u_acute", "U_ACUTE"}

\* the revisions that derive a place_id
SlugVariants == {"place", "namemun"}

\* the derivation of the revision, applied to the string it is given
SlugOf(v, s) == IF v = "place" THEN PlaceIdOfName(s) ELSE Slugify(s)

SlugInit ==
    /\ variant \in SlugVariants
    /\ now = 0
    /\ beaches = <<>>
    /\ conds = {}
    /\ nextCondId = 1
    /\ deliveries = 0
    /\ faults = 0
    /\ inv = [p \in Procs |-> IdleInvocation]
    /\ \E s \in ListsUpTo(SlugAlphabet, MaxSlugLen) : slug = [IdleSlug EXCEPT !.input = s]

\* the derivation is applied to the input
ApplySlug ==
    /\ slug.applied = 0
    /\ slug' = [slug EXCEPT !.once = SlugOf(variant, slug.input), !.applied = 1]
    /\ UNCHANGED <<variant, now, beaches, conds, nextCondId, deliveries, faults, inv>>

\* the derivation is applied to its own result
ApplySlugAgain ==
    /\ slug.applied = 1
    /\ slug' = [slug EXCEPT !.twice = SlugOf(variant, slug.once), !.applied = 2]
    /\ UNCHANGED <<variant, now, beaches, conds, nextCondId, deliveries, faults, inv>>

SlugNext == ApplySlug \/ ApplySlugAgain

SpecSlug == SlugInit /\ [][SlugNext]_vars

\* ------------------------------------------------------------ claims
FindOrCreate == {"place", "namemun", "url"}

\* the invocation is at the end of an iteration over a record its revision accepts
AtRecordEnd(me) ==
    /\ variant \in FindOrCreate
    /\ me.pc = "next"
    /\ Validate(variant, me.items[me.idx]) = "ok"

Unseen(me) == FindRows(variant, me.b0, me.items[me.idx]) = {}

\* one beaches row and one beach_conditions row referencing it were added, and
\* the counter of created rows went up by one
CreatedOne(me) ==
    /\ Len(beaches) = Len(me.b0) + 1
    /\ SubSeq(beaches, 1, Len(me.b0)) = me.b0
    /\ KeyOfRow(variant, beaches[Len(beaches)]) = KeyOfRecord(variant, me.items[me.idx])
    /\ \E c \in conds : /\ c \notin me.c0
                        /\ conds = me.c0 \cup {c}
                        /\ c.beach_id = beaches[Len(beaches)].id
    /\ variant = "namemun" => me.cnt.created = me.cnt0.created + 1
    /\ variant = "url" => me.cnt.beaches_added = me.cnt0.beaches_added + 1

AppendedToMatch(me) ==
    /\ Len(beaches) = Len(me.b0)
    /\ \E c \in conds : /\ c \notin me.c0
                        /\ conds = me.c0 \cup {c}
                        /\ c.beach_id \in FindRows(variant, me.b0, me.items[me.idx])

TwiceDelivered(me) ==
    /\ variant \in FindOrCreate
    /\ me.pc = "done"
    /\ me.status = 200
    /\ me.replay
    /\ \A i \in 1..Len(me.items) : Validate(variant, me.items[i]) = "ok"

DistinctKeys(me) == { KeyOfRecord(variant, me.items[i]) : i \in 1..Len(me.items) }

OneRowPerIdentity(me) ==
    /\ Len(beaches) = Cardinality(DistinctKeys(me))
    /\ Len(beaches) = me.nb0
    /\ me.cnt.created = 0
    /\ me.cnt.beaches_added = 0

C4_AtMostOneRowPerKey ==
    variant \in FindOrCreate =>
        \A i, j \in 1..Len(beaches) :
            KeyOfRow(variant, beaches[i]) = KeyOfRow(variant, beaches[j]) => i = j

\* some identity key is held by two beaches rows
Duplicated ==
    \E i, j \in 1..Len(beaches) :
        i < j /\ KeyOfRow(variant, beaches[i]) = KeyOfRow(variant, beaches[j])

\* C5: two concurrent deliveries of a record with the same new identity key can both
\* look up no row and both insert: the insert that follows a lookup appends its row
\* whatever the table holds by then, and no step of the handler removes a beaches row
\* or changes a row's identity key, so the duplicate stays.
C5_InsertAfterLookupNeverRechecks ==
    [][ /\ \A p \in Procs :
              (inv[p].pc = "insert" /\ inv'[p].pc = "cond") =>
                  /\ Len(beaches') = Len(beaches) + 1
                  /\ KeyOfRow(variant, beaches'[Len(beaches')])
                        = KeyOfRecord(variant, inv[p].items[inv[p].idx])
        /\ Len(beaches') >= Len(beaches)
        /\ \A i \in 1..Len(beaches) :
              KeyOfRow(variant, beaches'[i]) = KeyOfRow(variant, beaches[i]) ]_vars

\* both invocations found no row, both inserted, and no database call failed
C5_Witness ==
    /\ variant \in {"namemun", "url"}
    /\ faults = 0
    /\ Len(beaches) = 2
    /\ Duplicated
    /\ \A p \in Procs : inv[p].pc = "done" /\ inv[p].status = 200

\* the record of this iteration was counted as an error after a database call failed
FailedRecord(me) ==
    /\ me.pc = "next"
    /\ me.rfault
    /\ me.cnt.errors = me.cnt0.errors + 1

\* C6, as stated (its last part): the records after a failing record are processed as
\* if the failing record had been absent, so the lookup of the next record finds
\* what it would have found in the table as it was before the failing record.
C6_Original ==
    (/\ FailedRecord(inv[1])
     /\ inv[1].idx < Len(inv[1].items)
     /\ Validate(variant, inv[1].items[inv[1].idx + 1]) = "ok")
    => FindRows(variant, beaches, inv[1].items[inv[1].idx + 1])
         = FindRows(variant, inv[1].b0, inv[1].items[inv[1].idx + 1])

\* C6, amended: a record whose lookup, insert, update or condition insert fails never
\* stops the loop: the iteration ends or goes on within the same record, the loop
\* moves on by one record at a time, and it is left for the response only after the
\* last record.  (Later records see the tables as the failing record left them.)
C6_FailureNeverStopsTheLoop ==
    [][ LET me == inv[1]
            to == inv'[1]
        IN  /\ me.pc \in {"find", "insert", "update", "cond"} =>
                  /\ to.pc \in {"insert", "update", "cond", "next"}
                  /\ to.idx = me.idx
                  /\ to.items = me.items
            /\ me.pc = "next" =>
                  /\ to.pc = "loop"
                  /\ to.idx = me.idx + 1
                  /\ to.items = me.items
            /\ (me.pc = "loop" /\ to.pc \in {"cleanup", "done"} /\ to.status /= 500) =>
                  me.idx = Len(me.items) + 1 ]_vars

\* the first record failed on a database call and the second one was processed
C6_Witness ==
    /\ inv[1].pc = "next"
    /\ inv[1].idx = 2
    /\ inv[1].dfault /\ ~inv[1].rfault
    /\ inv[1].cnt0.errors = 1
    /\ inv[1].cnt.errors = 1
    /\ conds /= inv[1].c0

\* the sum of the outcome counters of the revision's summary
OutcomeSum(v, c) ==
    CASE v = "place" -> c.processed + c.errors
      [] v = "namemun" -> c.created + c.updated + c.errors
      [] v = "update" -> c.updated + c.notFound + c.errors
      [] v = "url" -> c.processed + c.errors

\* C7, as stated: at the response every input record has been counted in exactly one
\* outcome bucket, so the outcome counters sum to the number of input records.
C7_CountersSumToTotal ==
    (inv[1].pc = "done" /\ inv[1].status = 200) =>
        OutcomeSum(variant, inv[1].cnt) = Len(inv[1].items)

\* C8, as stated: a record with no name causes no write to beaches or
\* beach_conditions, increments the skip or error counter by one and none of the
\* other counters.
C8_NamelessRecordIsCounted ==
    (/\ variant \in FindOrCreate
     /\ inv[1].pc = "next"
     /\ ~Truthy(inv[1].items[inv[1].idx].name))
    => /\ beaches = inv[1].b0
       /\ conds = inv[1].c0
       /\ inv[1].writes = inv[1].w0
       /\ inv[1].cnt = Bump(inv[1].cnt0, "errors")

\* C9, as stated: the update of a matched row never replaces a value the row holds by
\* null or an empty value because the record's field is missing, null or empty.
C9_UpdateKeepsExistingValues ==
    (/\ variant \in FindOrCreate
     /\ inv[1].pc \in {"cond", "next"}
     /\ ~Truthy(inv[1].items[inv[1].idx].municipality))
    => \A i \in 1..Len(inv[1].b0) :
          Truthy(inv[1].b0[i].municipality) => Truthy(beaches[i].municipality)

\* C10, as stated: a POST whose body is {} is answered with status 400 and no insert,
\* update or delete is issued.
C10_EmptyBodyIs400 ==
    (inv[1].pc = "done" /\ inv[1].kind = "empty") =>
        /\ inv[1].status = 400
        /\ inv[1].writes = 0

\* the delivery reached the loop and none of its list elements is a JSON null
LoopRanThrough(me) ==
    /\ me.pc = "done"
    /\ me.entered
    /\ \A i \in 1..Len(me.items) : me.items[i] /= NullRecord

C12_LoopEnteredAnswers200 ==
    (inv[1].pc = "done" /\ inv[1].entered) => inv[1].status = 200

\* the delivery carried a single record object where the list is expected
SingleObject(me) == me.kind = "object"

\* the delivery was answered 400 before the loop and wrote nothing
RejectedUnwritten(me) ==
    /\ me.pc = "done"
    /\ me.status = 400
    /\ ~me.entered
    /\ me.writes = 0
    /\ Len(beaches) = me.nb0
    /\ nextCondId = me.nc0

\* C13, as stated: when the value resolved from the payload or fetched from the
\* dataset store is a single object and not a list, the delivery is rejected with 400,
\* the record loop is not entered and nothing is written.
C13_Original == (SingleObject(inv[1]) /\ inv[1].pc = "done") => RejectedUnwritten(inv[1])

\* C13, amended: the place_id, name+municipality and update-only revisions reject a
\* single object with 400 before the loop and write nothing; the source_url revision
\* takes it for a list of that one record, enters the loop and answers 200 with the
\* record counted as processed or as an error.
C13_SingleObjectRejectedOrWrapped ==
    SingleObject(inv[1]) =>
        /\ variant /= "url" => RejectedUnwritten(inv[1])
        /\ variant = "url" =>
              /\ inv[1].entered
              /\ Len(inv[1].items) = 1
              /\ inv[1].items[1] /= NullRecord
              /\ inv[1].pc = "done" =>
                    /\ inv[1].status = 200
                    /\ inv[1].cnt.processed + inv[1].cnt.errors = 1

\* the source_url revision created a beach and a condition row from a single object
C13_Witness ==
    /\ SingleObject(inv[1])
    /\ variant = "url"
    /\ inv[1].pc = "done"
    /\ inv[1].cnt.processed = 1
    /\ Len(beaches) = inv[1].nb0 + 1
    /\ nextCondId = inv[1].nc0 + 1

\* the string with every accented letter replaced by its base letter
RECURSIVE Unaccent(_)
Unaccent(s) ==
    IF s = <<>> THEN <<>>
    ELSE <<CASE Head(s) = "u_acute" -> "u" [] Head(s) = "U_ACUTE" -> "U" [] OTHER -> Head(s)>>
         \o Unaccent(Tail(s))

\* only [a-z0-9_], no repeated, leading or trailing underscore
WellFormedSlug(s) ==
    /\ \A i \in 1..Len(s) : IsSlugChar(s[i])
    /\ \A i \in 1..(Len(s) - 1) : ~(s[i] = "_" /\ s[i + 1] = "_")
    /\ s /= <<>> => (s[1] /= "_" /\ s[Len(s)] /= "_")

\* C14, as stated: the place_id derivation is idempotent, slug(slug(s)) = slug(s);
\* an accented letter is mapped to its base letter, so the result is that of the
\* unaccented input; and the result holds only [a-z0-9_] with no repeated, leading
\* or trailing underscore.
C14_SlugIdempotentWellFormed ==
    slug.applied = 2 =>
        /\ slug.twice = slug.once
        /\ slug.once = SlugOf(variant, Unaccent(slug.input))
        /\ WellFormedSlug(slug.once)

\* the lookup of the current record is about to return, and what it returns is
\* neither one row nor 'no matching row': the call fails, or several rows match
LookupFails ==
    /\ variant \in FindOrCreate
    /\ inv[1].pc = "find"
    /\ \/ faults' = faults + 1
       \/ Cardinality(FindRows(variant, beaches, inv[1].items[inv[1].idx])) > 1

\* C15, as stated: when the beaches lookup for a record fails for a reason other than
\* 'no matching row' (query error, or more than one row matching), the record is a
\* per-record error: errors goes up by one, the iteration ends there, so that neither
\* a beaches row nor a beach_conditions row is inserted for the record, and the loop
\* continues.
C15_LookupFailureIsRecordError ==
    [][ LookupFails =>
            /\ inv'[1].pc = "next"
            /\ inv'[1].cnt = Bump(inv[1].cnt, "errors")
            /\ beaches' = beaches
            /\ conds' = conds ]_vars

\* C16: when the beach_conditions insert of a record returns an error, errors goes up
\* by one and the iteration ends with the beaches table as the insert or update of
\* the same iteration left it: the failing step changes neither table, and the steps
\* that follow the iteration's end issue no write, so nothing is deleted or reverted.
C16_ConditionFailureKeepsBeachChange ==
    [][ /\ (inv[1].pc = "cond" /\ faults' = faults + 1) =>
              /\ inv'[1].pc = "next"
              /\ inv'[1].cnt = Bump(inv[1].cnt, "errors")
              /\ inv'[1].writes = inv[1].writes + 1
              /\ beaches' = beaches
              /\ conds' = conds
        /\ inv[1].pc = "next" =>
              /\ inv'[1].pc = "loop"
              /\ inv'[1].writes = inv[1].writes
              /\ beaches' = beaches
              /\ conds' = conds ]_vars

\* the beach update succeeded, the condition insert did not: the update is in place
C16_Witness ==
    /\ inv[1].pc = "next"
    /\ Len(beaches) = Len(inv[1].b0)
    /\ beaches /= inv[1].b0
    /\ conds = inv[1].c0
    /\ inv[1].writes = inv[1].w0 + 2
    /\ inv[1].cnt.errors = inv[1].cnt0.errors + 1

\* the counter of successfully processed records in the revision's summary
SuccessCounter(v, c) ==
    CASE v = "place" -> c.processed
      [] v \in {"namemun", "update"} -> c.updated
      [] v = "url" -> c.conditions_added

\* the rows of rows that this delivery inserted (deliveries run one at a time)
AddedHere(me, rows) == { c \in rows : c.id >= me.nc0 }

Answered200(me) == me.pc = "done" /\ me.status = 200

\* C17, as stated: at the response the number of beach_conditions rows added by this
\* delivery and present in the table equals its processed / conditions_added /
\* updated counter, whatever the scraped_at of the records.
C17_Original ==
    Answered200(inv[1]) =>
        Cardinality(AddedHere(inv[1], conds)) = SuccessCounter(variant, inv[1].cnt)

\* C17, amended: at the response the number of beach_conditions rows this delivery
\* inserted equals the counter; where the revision does not prune, all of them are
\* in the table; in the pruning revision all of them were in the table before the
\* cleanup, and after a successful cleanup exactly those with scraped_at not older
\* than 24 h before the invocation are left.
C17_OneRowInsertedPerSuccess ==
    Answered200(inv[1]) =>
        /\ nextCondId - inv[1].nc0 = SuccessCounter(variant, inv[1].cnt)
        /\ variant = "url" => inv[1].cnt.processed = inv[1].cnt.conditions_added
        /\ ~HasCleanup(variant) =>
              Cardinality(AddedHere(inv[1], conds)) = SuccessCounter(variant, inv[1].cnt)
        /\ HasCleanup(variant) =>
              /\ Cardinality(AddedHere(inv[1], inv[1].c1)) = SuccessCounter(variant, inv[1].cnt)
              /\ inv[1].cleaned = "ok" =>
                    AddedHere(inv[1], conds) =
                        { c \in AddedHere(inv[1], inv[1].c1) : c.scraped_at >= now - Retention }
              /\ inv[1].cleaned = "failed" =>
                    AddedHere(inv[1], conds) = AddedHere(inv[1], inv[1].c1)

\* two records were processed, and the row of the one scraped more than 24 h ago is
\* gone again at the response
C17_Witness ==
    /\ Answered200(inv[1])
    /\ HasCleanup(variant)
    /\ inv[1].cleaned = "ok"
    /\ inv[1].cnt.processed = 2
    /\ Cardinality(AddedHere(inv[1], conds)) = 1
    /\ \E c \in AddedHere(inv[1], inv[1].c1) : c.scraped_at < now - Retention

\* C18, as stated: every beach_conditions row inserted for a record that supplies no
\* flag_status has flag_status = "green", and every other measurement field the
\* record does not supply is stored as null, not as a default value.
C18_OnlyFlagStatusDefaults ==
    inv[1].pc = "next" =>
        \A c \in conds \ inv[1].c0 :
            LET r == inv[1].items[inv[1].idx] IN
            /\ r.flag_status = Undefined => c.flag_status = Green
            /\ r.has_jellyfish = Undefined => c.has_jellyfish = Null
            /\ r.occupancy_percent = Undefined => c.occupancy_percent = Null

\* the rows of beaches whose id is beachId
Owners(beachId) == { i \in 1..Len(beaches) : beaches[i].id = beachId }

\* C19: in every reachable state every beach_conditions row has a beach_id that is
\* the id of exactly one row of beaches; and no step deletes a beaches row or changes
\* a row's id.
C19_ConditionRowsHaveOneBeach ==
    /\ [](\A c \in conds : Cardinality(Owners(c.beach_id)) = 1)
    /\ [][ /\ Len(beaches') >= Len(beaches)
           /\ \A i \in 1..Len(beaches) : beaches'[i].id = beaches[i].id ]_vars

\* after two deliveries and a pruning that deleted a row, condition rows of two
\* beaches are in the table, one of a beach found by the lookup
C19_Witness ==
    /\ inv[1].pc = "done"
    /\ inv[1].cleaned = "ok"
    /\ Cardinality(conds) < nextCondId - 1
    /\ Len(beaches) = 2
    /\ \A i \in 1..2 : \E c \in conds : c.beach_id = beaches[i].id
    /\ \E c \in conds : c.id >= inv[1].nc0 /\ c.beach_id <= inv[1].nb0

\* the lookup of the current record is about to return no single row: the call
\* fails, or no row or several rows match
NoSingleRow ==
    /\ inv[1].pc = "find"
    /\ \/ faults' = faults + 1
       \/ Cardinality(FindRows(variant, beaches, inv[1].items[inv[1].idx])) /= 1

\* C20: in the update-only revision no step changes the beaches table and no insert
\* or update of beaches is ever reached; a record whose lookup returns no single row
\* (no match, several matches, or a lookup error) adds one to notFound and to nothing
\* else, and no beach_conditions row; and at the 200 response
\* updated + notFound + errors is the number of input records.
C20_UpdateOnlyLeavesBeaches ==
    /\ []((variant = "update") =>
            /\ inv[1].pc \notin {"insert", "update", "cleanup"}
            /\ Answered200(inv[1]) =>
                  inv[1].cnt.updated + inv[1].cnt.notFound + inv[1].cnt.errors
                      = Len(inv[1].items))
    /\ [][ (variant = "update") =>
              /\ beaches' = beaches
              /\ NoSingleRow =>
                    /\ inv'[1].cnt = Bump(inv[1].cnt, "notFound")
                    /\ inv'[1].pc = "next"
                    /\ inv'[1].writes = inv[1].writes
                    /\ conds' = conds ]_vars

\* of two records, one matched one row and got its condition row, the other matched
\* both rows of the table and was counted as not found
C20_Witness ==
    /\ variant = "update"
    /\ Answered200(inv[1])
    /\ Len(beaches) = 2
    /\ inv[1].cnt.updated = 1
    /\ inv[1].cnt.notFound = 1
    /\ nextCondId = inv[1].nc0 + 1
    /\ \E i \in 1..Len(inv[1].items) :
          Cardinality(FindRows(variant, beaches, inv[1].items[i])) = 2

====
